---- MODULE Spec2Model ----
(***************************************************************************)
(* The snippet editor: App.vue (the host: refs, load from the tacklet      *)
(* session store, the save watcher) and components/CodeEditor.vue (the     *)
(* textarea, the highlighted overlay, the cursor display, the copy action  *)
(* and the settings popover).                                              *)
(*                                                                         *)
(* A text is a sequence of one-character strings.  The alphabet keeps one  *)
(* character of each class the code and the highlighter treat differently: *)
(* "1" (a token highlight.js styles), " " (plain; what Tab inserts),       *)
(* "<" (escaped by highlight.js) and "\n" (the line break).                *)
(* Markup (the value of hljs.highlight, the overlay's innerHTML) is a      *)
(* sequence of tokens: a tag, an entity or a literal character.            *)
(***************************************************************************)
EXTENDS Integers, Sequences, FiniteSets, TLC

\* ------------------------------------------------------------------ bounds
MaxLen == 2
MaxLoadLen == 1
MaxViewLen == 5
MaxFeedback == 1
MaxCopies == 1

Chars == {"1", " ", "<", "\n"}
SeqsUpTo(S, n) == UNION {[1..k -> S] : k \in 0..n}
Texts == SeqsUpTo(Chars, MaxLen)
\* The texts of the specification that only views a text (no Tab, so no
\* need of the space).
ViewTexts == SeqsUpTo(Chars \ {" "}, MaxViewLen)

\* ------------------------------------------------------- CodeEditor.vue data
languages ==
    {"javascript", "typescript", "html", "css", "python",
     "java", "cpp", "ruby", "php", "sql"}

\* The tags the model supplies: two supported ones that highlight differently,
\* one no grammar is registered for, and the empty tag.
LangInputs == {"javascript", "html", "cobol", ""}

\* ---------------------------------------------------------- string helpers
Take(s, n) == SubSeq(s, 1, n)
Drop(s, n) == SubSeq(s, n + 1, Len(s))

\* String.prototype.split("\n"): the pieces between the separators.
RECURSIVE SplitFrom(_, _, _)
SplitFrom(s, i, cur) ==
    IF i > Len(s) THEN <<cur>>
    ELSE IF s[i] = "\n" THEN <<cur>> \o SplitFrom(s, i + 1, <<>>)
    ELSE SplitFrom(s, i + 1, Append(cur, s[i]))

Split(s) == SplitFrom(s, 1, <<>>)

RECURSIVE Flatten(_)
Flatten(ss) == IF ss = <<>> THEN <<>> ELSE Head(ss) \o Flatten(Tail(ss))

\* ------------------------------------------------------------ highlight.js
SpanOpen == "<span class=\"hljs-number\">"
SpanClose == "</span>"
Br == "<br>"
Tags == {SpanOpen, SpanClose, Br}

\* hljs.highlight throws 'Unknown language' for a tag with no grammar; the
\* default build registers a grammar for each of the ten tags of the selector.
Registered(lang) == lang \in languages

\* Grammars that style a bare number; the html (xml) grammar leaves text
\* outside tags unstyled.
StylesNumbers(lang) == lang \in languages \ {"html"}

\* highlight.js escapes the characters HTML gives a meaning.
EscapeHTML(c) == IF c = "<" THEN "&lt;" ELSE c

HljsToken(text, lang, i) ==
    LET digit(k) == k >= 1 /\ k <= Len(text) /\ text[k] = "1"
        styled == StylesNumbers(lang) /\ digit(i)
    IN  (IF styled /\ ~digit(i - 1) THEN <<SpanOpen>> ELSE <<>>)
        \o <<EscapeHTML(text[i])>>
        \o (IF styled /\ ~digit(i + 1) THEN <<SpanClose>> ELSE <<>>)

\* The .value of hljs.highlight(text, {language}) for a registered tag.
HljsValue(text, lang) ==
    Flatten([i \in 1..Len(text) |-> HljsToken(text, lang, i)])

\* A replace that drops the line breaks instead.
DropLinebreaks(markup) == SelectSeq(markup, LAMBDA t : t # "\n")

\* highlighted.replace(/\n/g, "<br>")
ReplaceLinebreaks(markup) ==
    [i \in 1..Len(markup) |-> IF markup[i] = "\n" THEN Br ELSE markup[i]]

\* What highlightCode assigns to editorRef.innerHTML.
HighlightedMarkup(text, lang) == ReplaceLinebreaks(HljsValue(text, lang))

\* The text nodes of a parsed markup, in order and concatenated: tags make
\* elements, not text; entities are decoded.
DecodeEntity(t) == IF t = "&lt;" THEN "<" ELSE t

RECURSIVE LiteralText(_)
LiteralText(markup) ==
    IF markup = <<>> THEN <<>>
    ELSE IF Head(markup) \in Tags THEN LiteralText(Tail(markup))
    ELSE <<DecodeEntity(Head(markup))>> \o LiteralText(Tail(markup))

\* ------------------------------------------------------------------- state
VARIABLES
    appCode,          \* App.vue: code
    darkMode,         \* App.vue: darkMode
    wordWrap,         \* App.vue: wordWrap
    showLineNumbers,  \* App.vue: showLineNumbers
    language,         \* App.vue: language (the editor's language prop)
    loaded,           \* App.vue: the onMounted callback has run
    saved,            \* the record of the latest tacklet.setData call
    code,             \* CodeEditor.vue: code
    value,            \* the textarea's value
    selectionStart,   \* the textarea's selectionStart
    selectionEnd,     \* the textarea's selectionEnd
    overlay,          \* editorRef.innerHTML
    cursorLine,       \* CodeEditor.vue: cursorLine
    cursorColumn,     \* CodeEditor.vue: cursorColumn
    popoverVisible,   \* CodeEditor.vue: popoverVisible
    copying,          \* clipboard.writeText calls copyCode is awaiting
    feedback,         \* the number of .copy-feedback elements in the body
    last              \* what the latest event's handlers met and did

vars ==
    <<appCode, darkMode, wordWrap, showLineNumbers, language, loaded, saved,
      code, value, selectionStart, selectionEnd, overlay, cursorLine,
      cursorColumn, popoverVisible, copying, feedback, last>>

appVars == <<appCode, darkMode, wordWrap, showLineNumbers, language>>
bufferVars == <<code, value, selectionStart, selectionEnd>>
cursorVars == <<cursorLine, cursorColumn>>

NoRecord == [none |-> TRUE]

\* ------------------------------------------------------- CodeEditor.vue code
\* props.language || "javascript": only a falsy tag falls back.
localLanguage(lang) == IF lang = "" THEN "javascript" ELSE lang

\* updateCursorPosition splitting the whole value, not the text before the
\* caret.
CursorOfWholeText(text, start) ==
    LET lines == Split(text)
    IN  <<Len(lines), Len(lines[Len(lines)]) + 1>>

\* The (line, column) updateCursorPosition stores for a textarea value and
\* selectionStart.
updateCursorPosition(text, start) ==
    LET lines == Split(Take(text, start))
    IN  <<Len(lines), Len(lines[Len(lines)]) + 1>>

\* getLineNumbers: one number per piece of code.value.split("\n").
getLineNumbers(text) == 1..Len(Split(text))

\* highlightCode has no try/catch: it throws when hljs.highlight does, before
\* the assignment to innerHTML.
highlightThrows(lang) == ~Registered(localLanguage(lang))

highlightCode(text, lang, old) ==
    IF highlightThrows(lang) THEN old
    ELSE HighlightedMarkup(text, localLanguage(lang))

HlOutcome(lang) == IF highlightThrows(lang) THEN "threw" ELSE "ok"

\* ------------------------------------------------- outcomes of an event
\* An outcome of an external call: tacklet.setData returns, throws or returns
\* a promise that rejects; clipboard.writeText and connect/getData resolve or
\* reject.
SetDataOutcomes == {"ok", "throw", "reject"}

\* console.error calls of the catch blocks.
SaveLogged(save) == IF save = "throw" THEN {"Error saving data to Tacklet:"} ELSE {}
CopyLogged(copy) == IF copy = "fail" THEN {"Failed to copy code:"} ELSE {}
LoadLogged(load) == IF load = "fail" THEN {"Error connecting to Tacklet:"} ELSE {}

\* Errors no code of the repository catches: a throw of highlightCode leaves
\* the handler or watcher it ran in; the promise of setData is not awaited.
HlUncaught(hl) == IF hl = "threw" THEN {"highlight"} ELSE {}
SaveUncaught(save) == IF save = "reject" THEN {"setData"} ELSE {}

\* copyCode appends its "Copied!" element in the try block, after the await.
CopyNotified(copy) == copy = "ok"

Pass(event, hl, save, copy, load) ==
    [event |-> event, hl |-> hl, save |-> save, copy |-> copy, load |-> load,
     notified |-> CopyNotified(copy),
     logged |-> SaveLogged(save) \cup CopyLogged(copy) \cup LoadLogged(load),
     uncaught |-> HlUncaught(hl) \cup SaveUncaught(save)]

\* ------------------------------------------------------------ App.vue code
\* The save watcher's callback: runs when code, darkMode, wordWrap or
\* showLineNumbers changed, and passes the current values to setData.
SaveWatcher(changed) ==
    saved' = IF changed
             THEN [code |-> appCode', darkMode |-> darkMode',
                   wordWrap |-> wordWrap',
                   showLineNumbers |-> showLineNumbers']
             ELSE saved

SaveChoices(changed) == IF changed THEN SetDataOutcomes ELSE {"none"}

\* --------------------------------------------------------------- Init
\* The editor as mounted with a text and a language prop: v-model has set the
\* textarea's value, which leaves the caret at its end; onMounted has run
\* highlightCode and then updateCursorPosition, which a throw of highlightCode
\* skips (the cursor refs keep their initial 1, 1).
MountedWith(text, lang) ==
    /\ appCode = text
    /\ darkMode = TRUE
    /\ wordWrap = FALSE
    /\ showLineNumbers = TRUE
    /\ language = lang
    /\ loaded = FALSE
    /\ saved = NoRecord
    /\ code = text
    /\ value = text
    /\ selectionStart = Len(text)
    /\ selectionEnd = Len(text)
    /\ overlay = highlightCode(text, lang, <<>>)
    /\ cursorLine = IF highlightThrows(lang) THEN 1
                    ELSE updateCursorPosition(text, Len(text))[1]
    /\ cursorColumn = IF highlightThrows(lang) THEN 1
                      ELSE updateCursorPosition(text, Len(text))[2]
    /\ popoverVisible = FALSE
    /\ copying = 0
    /\ feedback = 0
    /\ last = Pass("mount", HlOutcome(lang), "none", "none", "none")

\* App mounts the editor with its defaults: language "javascript".
Init == \E text \in Texts : MountedWith(text, "javascript")

\* The editor mounted by a host with any text and any language tag.
InitView == \E text \in ViewTexts : \E lang \in LangInputs : MountedWith(text, lang)

\* ------------------------------------------------------------ actions
\* updateContent, run with the textarea's new value and caret in place; then
\* the watchers the emit triggers.  A throw of highlightCode skips
\* updateCursorPosition.
updateContent(event, save) ==
    /\ code' = value'
    /\ appCode' = code'
    /\ overlay' = highlightCode(code', language, overlay)
    /\ cursorLine' = IF highlightThrows(language) THEN cursorLine
                     ELSE updateCursorPosition(value', selectionStart')[1]
    /\ cursorColumn' = IF highlightThrows(language) THEN cursorColumn
                       ELSE updateCursorPosition(value', selectionStart')[2]
    /\ UNCHANGED <<darkMode, wordWrap, showLineNumbers, language, loaded,
                   popoverVisible, copying, feedback>>
    /\ SaveWatcher(appCode' # appCode)
    /\ last' = Pass(event, HlOutcome(language), save, "none", "none")

\* The user types or pastes p over the selection (an input event).
InputReplace ==
    \E p \in Texts :
        /\ p # <<>> \/ selectionStart # selectionEnd
        /\ Len(value) - (selectionEnd - selectionStart) + Len(p) <= MaxLen
        /\ value' = Take(value, selectionStart) \o p \o Drop(value, selectionEnd)
        /\ selectionStart' = selectionStart + Len(p)
        /\ selectionEnd' = selectionStart + Len(p)
        /\ \E save \in SaveChoices(value' # appCode) :
               updateContent("input", save)

\* Backspace with a collapsed caret (an input event).
InputBackspace ==
    /\ selectionStart = selectionEnd
    /\ selectionStart > 0
    /\ value' = Take(value, selectionStart - 1) \o Drop(value, selectionStart)
    /\ selectionStart' = selectionStart - 1
    /\ selectionEnd' = selectionStart - 1
    /\ \E save \in SaveChoices(value' # appCode) : updateContent("input", save)

\* handleKeyDown with event.key = "Tab".
handleKeyDown ==
    LET start == selectionStart
        end == selectionEnd
        newValue == Take(value, start) \o <<" ", " ">> \o Drop(value, end)
    IN  /\ Len(newValue) <= MaxLen
        /\ value' = newValue
        /\ selectionStart' = start + 2
        /\ selectionEnd' = start + 2
        /\ \E save \in SaveChoices(value' # appCode) : updateContent("tab", save)

\* A keyup or a click in the textarea: the caret or selection is wherever the
\* user put it and updateCursorPosition runs; a click is also a click outside
\* the popover (handleClickOutside).
MoveCaret ==
    \E s \in 0..Len(value) : \E e \in s..Len(value) :
        /\ selectionStart' = s
        /\ selectionEnd' = e
        /\ cursorLine' = updateCursorPosition(value, s)[1]
        /\ cursorColumn' = updateCursorPosition(value, s)[2]
        /\ popoverVisible' \in {popoverVisible, FALSE}
        /\ UNCHANGED <<appVars, loaded, saved, code, value, overlay,
                       copying, feedback>>
        /\ last' = Pass("caret", "none", "none", "none", "none")

\* The language selector: the setter of localLanguage emits update:language,
\* App stores it, and the watcher of localLanguage highlights again.  The save
\* watcher does not watch language.
SelectableLanguages == languages \cap LangInputs

SelectLanguage ==
    \E l \in SelectableLanguages :
        /\ l # localLanguage(language)
        /\ language' = l
        /\ overlay' = highlightCode(code, language', overlay)
        /\ UNCHANGED <<appCode, darkMode, wordWrap, showLineNumbers, loaded,
                       saved, bufferVars, cursorVars, popoverVisible,
                       copying, feedback>>
        /\ last' = Pass("language", HlOutcome(language'), "none", "none", "none")

\* The checkboxes of the popover: each setter emits, App stores the flag and
\* the save watcher runs.
ToggleDarkMode ==
    /\ popoverVisible
    /\ darkMode' = ~darkMode
    /\ UNCHANGED <<appCode, wordWrap, showLineNumbers, language, loaded,
                   bufferVars, overlay, cursorVars, popoverVisible, copying,
                   feedback>>
    /\ SaveWatcher(TRUE)
    /\ \E save \in SetDataOutcomes :
           last' = Pass("darkMode", "none", save, "none", "none")

\* A toggle whose re-render loses the caret.
ToggleWordWrapLosingCaret ==
    /\ popoverVisible
    /\ wordWrap' = ~wordWrap
    /\ selectionStart' = Len(value)
    /\ selectionEnd' = Len(value)
    /\ UNCHANGED <<appCode, darkMode, showLineNumbers, language, loaded,
                   code, value, overlay, cursorVars, popoverVisible, copying,
                   feedback>>
    /\ SaveWatcher(TRUE)
    /\ \E save \in SetDataOutcomes :
           last' = Pass("wordWrap", "none", save, "none", "none")

ToggleWordWrap ==
    /\ popoverVisible
    /\ wordWrap' = ~wordWrap
    /\ UNCHANGED <<appCode, darkMode, showLineNumbers, language, loaded,
                   bufferVars, overlay, cursorVars, popoverVisible, copying,
                   feedback>>
    /\ SaveWatcher(TRUE)
    /\ \E save \in SetDataOutcomes :
           last' = Pass("wordWrap", "none", save, "none", "none")

ToggleShowLineNumbers ==
    /\ popoverVisible
    /\ showLineNumbers' = ~showLineNumbers
    /\ UNCHANGED <<appCode, darkMode, wordWrap, language, loaded,
                   bufferVars, overlay, cursorVars, popoverVisible, copying,
                   feedback>>
    /\ SaveWatcher(TRUE)
    /\ \E save \in SetDataOutcomes :
           last' = Pass("showLineNumbers", "none", save, "none", "none")

togglePopover ==
    /\ popoverVisible' = ~popoverVisible
    /\ UNCHANGED <<appVars, loaded, saved, bufferVars, overlay, cursorVars,
                   copying, feedback>>
    /\ last' = Pass("popover", "none", "none", "none", "none")

\* A click outside the popover and the settings button, not in the textarea.
handleClickOutside ==
    /\ popoverVisible
    /\ popoverVisible' = FALSE
    /\ UNCHANGED <<appVars, loaded, saved, bufferVars, overlay, cursorVars,
                   copying, feedback>>
    /\ last' = Pass("clickOutside", "none", "none", "none", "none")

\* copyCode up to its await: writeText is called with code.value.  The copy
\* button lies outside the popover, so the click closes it as well.
copyCode ==
    /\ copying < MaxCopies
    /\ copying' = copying + 1
    /\ popoverVisible' = FALSE
    /\ UNCHANGED <<appVars, loaded, saved, bufferVars, overlay, cursorVars,
                   feedback>>
    /\ last' = Pass("copyClick", "none", "none", "none", "none")

\* copyCode after its await: on success the feedback element is appended and
\* a timer set; on failure the catch block logs.  Either way the popover is
\* hidden.
copyCodeResume ==
    /\ copying > 0
    /\ copying' = copying - 1
    /\ popoverVisible' = FALSE
    /\ UNCHANGED <<appVars, loaded, saved, bufferVars, overlay, cursorVars>>
    /\ \E copy \in {"ok", "fail"} :
        /\ CopyNotified(copy) => feedback < MaxFeedback
        /\ feedback' = IF CopyNotified(copy) THEN feedback + 1 ELSE feedback
        /\ last' = Pass("copy", "none", "none", copy, "none")

\* The 1500 ms timer of a feedback element removes it.
removeFeedback ==
    /\ feedback > 0
    /\ feedback' = feedback - 1
    /\ UNCHANGED <<appVars, loaded, saved, bufferVars, overlay, cursorVars,
                   popoverVisible, copying>>
    /\ last' = Pass("timer", "none", "none", "none", "none")

\* ------------------------------------------------------------------ load
\* What getData may resolve to: null, or a record of which each field is
\* present ({v}) or not ({}).
NullData == [null |-> TRUE]
LoadTexts == {t \in Texts : Len(t) <= MaxLoadLen}
StoredFlags ==
    {[darkMode |-> {}, wordWrap |-> {}, showLineNumbers |-> {}],
     [darkMode |-> {FALSE}, wordWrap |-> {TRUE}, showLineNumbers |-> {FALSE}]}
StoreRecords ==
    {[code |-> c, darkMode |-> f.darkMode, wordWrap |-> f.wordWrap,
      showLineNumbers |-> f.showLineNumbers, language |-> l] :
        c \in {{}} \cup {{t} : t \in LoadTexts},
        f \in StoredFlags,
        l \in {{}} \cup {{t} : t \in LangInputs}}

\* if (data.f !== undefined) ref.value = data.f
Apply(data, f, current) ==
    IF data = NullData \/ data[f] = {} THEN current
    ELSE CHOOSE v \in data[f] : TRUE

\* The callback of App's onMounted: connect, getData, apply.  The refs change
\* together; then the save watcher and the editor's two watchers run, and the
\* render gives the textarea the new code, which moves the caret to its end.
\* Neither watcher runs updateCursorPosition.
Load ==
    /\ ~loaded
    /\ loaded' = TRUE
    /\ \E data \in StoreRecords \cup {NullData} :
        /\ appCode' = Apply(data, "code", appCode)
        /\ darkMode' = Apply(data, "darkMode", darkMode)
        /\ wordWrap' = Apply(data, "wordWrap", wordWrap)
        /\ showLineNumbers' = Apply(data, "showLineNumbers", showLineNumbers)
        /\ language' = Apply(data, "language", language)
        /\ code' = appCode'
        /\ LET textChanged == appCode' # appCode
               langChanged == localLanguage(language') # localLanguage(language)
               flagsChanged == <<darkMode', wordWrap', showLineNumbers'>>
                               # <<darkMode, wordWrap, showLineNumbers>>
           IN  /\ overlay' = IF textChanged \/ langChanged
                             THEN highlightCode(code', language', overlay)
                             ELSE overlay
               /\ value' = code'
               /\ selectionStart' = IF textChanged THEN Len(code') ELSE selectionStart
               /\ selectionEnd' = IF textChanged THEN Len(code') ELSE selectionEnd
               /\ SaveWatcher(textChanged \/ flagsChanged)
               /\ \E save \in SaveChoices(textChanged \/ flagsChanged) :
                      last' = Pass("load",
                                   IF textChanged \/ langChanged
                                   THEN HlOutcome(language') ELSE "none",
                                   save, "none", "ok")
        /\ UNCHANGED <<cursorVars, popoverVisible, copying, feedback>>

\* connect or getData rejects: the catch block logs and the defaults stay.
LoadFails ==
    /\ ~loaded
    /\ loaded' = TRUE
    /\ UNCHANGED <<appVars, saved, bufferVars, overlay, cursorVars,
                   popoverVisible, copying, feedback>>
    /\ last' = Pass("load", "none", "none", "none", "fail")

Next ==
    \/ InputReplace
    \/ InputBackspace
    \/ handleKeyDown
    \/ MoveCaret
    \/ SelectLanguage
    \/ ToggleDarkMode
    \/ ToggleWordWrap
    \/ ToggleShowLineNumbers
    \/ togglePopover
    \/ handleClickOutside
    \/ copyCode
    \/ copyCodeResume
    \/ removeFeedback
    \/ Load
    \/ LoadFails

\* The whole editor.  Its state space is the product of the editing, settings
\* and copy concerns; the specifications below each keep the actions of one
\* concern, and every action of Next belongs to at least one of them.
Spec == Init /\ [][Next]_vars

\* The editing session: edits, caret moves, language changes and the load.
NextEdit ==
    \/ InputReplace
    \/ InputBackspace
    \/ handleKeyDown
    \/ MoveCaret
    \/ SelectLanguage
    \/ Load
    \/ LoadFails

SpecEdit == Init /\ [][NextEdit]_vars

\* The settings: the popover, its checkboxes and the saves they cause.
NextSettings ==
    \/ MoveCaret
    \/ ToggleDarkMode
    \/ ToggleWordWrap
    \/ ToggleShowLineNumbers
    \/ togglePopover
    \/ handleClickOutside

SpecSettings == Init /\ [][NextSettings]_vars

\* The copy action, between edits and with the popover.
NextCopy ==
    \/ InputReplace
    \/ togglePopover
    \/ copyCode
    \/ copyCodeResume
    \/ removeFeedback

SpecCopy == Init /\ [][NextCopy]_vars

\* A text under any language tag, viewed: the caret moves and the language
\* changes, the text does not.
NextView ==
    \/ MoveCaret
    \/ SelectLanguage

SpecView == InitView /\ [][NextView]_vars

\* ------------------------------------------------------------------ claims
Range(s) == {s[i] : i \in DOMAIN s}

\* A markup read back as text with each <br> element taken for a line break.
RECURSIVE Reconstruct(_)
Reconstruct(markup) ==
    IF markup = <<>> THEN <<>>
    ELSE IF Head(markup) = Br THEN <<"\n">> \o Reconstruct(Tail(markup))
    ELSE IF Head(markup) \in Tags THEN Reconstruct(Tail(markup))
    ELSE <<DecodeEntity(Head(markup))>> \o Reconstruct(Tail(markup))

NotLinebreak(c) == c # "\n"

\* The whole text as one unstyled span: no styling element, every character
\* present (a line break literally or as <br>).
ShowsUnstyled(markup, text) ==
    /\ SpanOpen \notin Range(markup)
    /\ Reconstruct(markup) = text

\* The caret tracker of the specification: the line is one more than the
\* number of line breaks before the offset, the column counts from the start
\* of that line.
BreaksBefore(text, o) == Cardinality({i \in 1..o : text[i] = "\n"})
LineStart(text, o) ==
    LET breaks == {i \in 1..o : text[i] = "\n"}
    IN  IF breaks = {} THEN 0 ELSE CHOOSE i \in breaks : \A j \in breaks : j <= i
LineOf(text, o) == 1 + BreaksBefore(text, o)
ColumnOf(text, o) == o - LineStart(text, o) + 1

\* C1: when the highlighter throws during a synchronization pass, the error
\* does not leave the pass, the document text is untouched and the overlay
\* shows the complete current text as one unstyled span.
C1_HighlightFailureContained ==
    last.hl = "threw" =>
        /\ "highlight" \notin last.uncaught
        /\ code = value
        /\ ShowsUnstyled(overlay, code)

\* C2: a language tag that is not one of the ten supported tags makes the
\* active tag "javascript", and nothing is thrown.
C2_UnsupportedTagFallsBack ==
    language \notin languages =>
        /\ localLanguage(language) = "javascript"
        /\ "highlight" \notin last.uncaught

C4_CursorIsLineColumn ==
    /\ (last.event = "caret" \/ (last.event = "mount" /\ last.hl = "ok")) =>
        /\ cursorLine = LineOf(value, selectionStart)
        /\ cursorColumn = ColumnOf(value, selectionStart)
        /\ selectionStart = 0 => cursorLine = 1 /\ cursorColumn = 1
        /\ (selectionStart > 0 /\ value[selectionStart] = "\n") => cursorColumn = 1
    /\ updateCursorPosition(<<"1", "1", "\n", "1", "1">>, 3) = <<2, 1>>
    /\ updateCursorPosition(<<"1", "1", "\n", "1", "1">>, 5) = <<2, 3>>

C4_Witness ==
    /\ last.event = "caret"
    /\ value = <<"1", "1", "\n", "1", "1">>
    /\ selectionStart = 3
    /\ cursorLine = 2
    /\ cursorColumn = 1

\* The record the save watcher builds from the current refs.
CurrentRecord ==
    [code |-> appCode, darkMode |-> darkMode, wordWrap |-> wordWrap,
     showLineNumbers |-> showLineNumbers]

\* C5: a word-wrap or dark-mode toggle, with the save it triggers, changes
\* neither the document text nor the caret offset nor the displayed cursor
\* line and column; hence no sequence of such toggles does.
C5_TogglesKeepBuffer ==
    [][last'.event \in {"darkMode", "wordWrap"} =>
          /\ UNCHANGED <<code, value, appCode, selectionStart, selectionEnd,
                         cursorLine, cursorColumn, overlay>>
          /\ last'.save # "none"
          /\ saved'.code = code]_vars

C5_Witness ==
    /\ last.event = "wordWrap"
    /\ wordWrap
    /\ ~darkMode
    /\ code = <<"\n", "1">>
    /\ selectionStart = 1
    /\ selectionEnd = 2
    /\ cursorLine = 2
    /\ saved = CurrentRecord

\* C6: a failed save, whether setData throws or its promise rejects, is
\* caught and logged by the save watcher and never escapes; the document and
\* flags are as the event left them and the call carried the current values.
C6_SaveFailureCaught ==
    last.save \in {"throw", "reject"} =>
        /\ "setData" \notin last.uncaught
        /\ "Error saving data to Tacklet:" \in last.logged
        /\ saved = CurrentRecord

\* C7: a failed clipboard write is shown to the user as a transient
\* notification, does not leave copyCode, and the popover is closed after it.
C7_CopyFailureNotified ==
    last.copy = "fail" =>
        /\ last.notified
        /\ last.uncaught = {}
        /\ ~popoverVisible

\* The display projection of the specification: the highlighter's markup,
\* or the whole text unstyled when the highlighter throws.
IsProjectionOf(markup, text, lang) ==
    IF Registered(lang) THEN markup = HighlightedMarkup(text, lang)
    ELSE ShowsUnstyled(markup, text)

\* C8: once an event is handled, the overlay is the projection of the current
\* document text under the current language tag, and the host's text, the
\* document text and the textarea agree.
C8_OverlayIsProjection ==
    /\ IsProjectionOf(overlay, code, localLanguage(language))
    /\ appCode = code
    /\ value = code

\* C9: after every change of the document text the displayed cursor line and
\* column are those of the new text and the caret; the displayed line is
\* always one of the document's line numbers.
C9_CursorFollowsText ==
    /\ last.event \in {"input", "tab"} =>
        /\ cursorLine = LineOf(value, selectionStart)
        /\ cursorColumn = ColumnOf(value, selectionStart)
    /\ cursorLine \in getLineNumbers(code)

\* C10: Tab replaces the selection by two spaces and keeps every character
\* outside it, collapses the caret at start + 2, and the new text is stored,
\* emitted to the host, highlighted and used for the displayed cursor.
C10_TabInsertsTwoSpaces ==
    [][last'.event = "tab" =>
          /\ value' = Take(value, selectionStart) \o <<" ", " ">>
                      \o Drop(value, selectionEnd)
          /\ selectionStart' = selectionStart + 2
          /\ selectionEnd' = selectionStart + 2
          /\ code' = value'
          /\ appCode' = value'
          /\ IsProjectionOf(overlay', value', localLanguage(language'))
          /\ cursorLine' = LineOf(value', selectionStart')
          /\ cursorColumn' = ColumnOf(value', selectionStart')]_vars

\* ------------------------------------------------------- save and load
\* A session that edits, changes the language and toggles the flags; what a
\* later mount would load is the record of its latest setData call.
NextPersist ==
    \/ InputReplace
    \/ SelectLanguage
    \/ ToggleDarkMode
    \/ ToggleWordWrap
    \/ ToggleShowLineNumbers
    \/ togglePopover

SpecPersist == Init /\ [][NextPersist]_vars

\* What getData resolves to on a later mount: null when setData was never
\* called, else the record of the latest call, each field present or not.
GetDataAfter(record) ==
    IF record = NoRecord THEN NullData
    ELSE [f \in {"code", "darkMode", "wordWrap", "showLineNumbers", "language"} |->
             IF f \in DOMAIN record THEN {record[f]} ELSE {}]

\* C11: the record most recently passed to setData, loaded by a later mount
\* over App's defaults, restores code, darkMode, wordWrap, showLineNumbers
\* and language to the values the session ended with.
C11_SavedRecordRestoresSession ==
    LET data == GetDataAfter(saved)
    IN  /\ saved # NoRecord => Apply(data, "code", <<>>) = appCode
        /\ Apply(data, "darkMode", TRUE) = darkMode
        /\ Apply(data, "wordWrap", FALSE) = wordWrap
        /\ Apply(data, "showLineNumbers", TRUE) = showLineNumbers
        /\ Apply(data, "language", "javascript") = language

====
